---- MODULE Spec2Model ----
(***************************************************************************)
(* The rendering core of Proyecto3SistemaSolar: render (src/main.rs),      *)
(* vertex_shader and fragment_shader (src/shaders.rs), triangle and        *)
(* barycentric_coordinates (src/triangle.rs); and the camera that flies    *)
(* through the scene, SpaceshipCamera::update (src/main.rs).               *)
(*                                                                         *)
(* Numbers.  An f32 is a record [nan, v]: nan marks NaN, and a finite      *)
(* value is held in fixed point, v counting halves (v = 3 is 1.5), so that *)
(* a vertex can lie on a pixel corner (v even) or on a pixel centre        *)
(* (v odd).  Below 2^23 the sums, differences and products of the values   *)
(* drawn here are exact in f32; from 2^23 on an f32 holds whole numbers    *)
(* only, and the sums the code makes there are rounded as f32 rounds them  *)
(* (Centre, QRound).  A quotient is kept as an exact fraction [nan, n, d]  *)
(* with d > 0, where f32 would round it.  The comparisons the code makes   *)
(* on NaN are all false, and a float-to-integer cast saturates and sends   *)
(* NaN to 0, as Rust's `as` does.                                          *)
(***************************************************************************)
EXTENDS Integers, Sequences, FiniteSets, TLC

NaN == [nan |-> TRUE, v |-> 0]
Fin(v) == [nan |-> FALSE, v |-> v]
\* n whole units in fixed point
Whole(n) == 2 * n
\* An f32 has 24 significant bits: from 2^23 on, only whole numbers are
\* f32 values (up to 2^24, the range held here).
F32_WHOLE_FROM == 8388608
\* `n as f32 + 0.5`, the centre of pixel n: exact below 2^23; from there
\* on the sum is rounded to a whole number, a tie going to the even one
Centre(n) ==
  IF n >= -F32_WHOLE_FROM /\ n < F32_WHOLE_FROM THEN 2 * n + 1
  ELSE IF n % 2 = 0 THEN 2 * n ELSE 2 * n + 2

FAdd(a, b) == IF a.nan \/ b.nan THEN NaN ELSE Fin(a.v + b.v)
FSub(a, b) == IF a.nan \/ b.nan THEN NaN ELSE Fin(a.v - b.v)
\* an integer (a matrix entry, 255.0) times an f32: 0.0 * NaN is NaN
FScale(m, a) == IF a.nan THEN NaN ELSE Fin(m * a.v)
\* f32::floor and f32::ceil followed by `as i32`, on a fixed-point value
FloorI(v) == v \div 2
CeilI(v) == (v + 1) \div 2

\* An exact fraction n / d of fixed-point values, d > 0 (or NaN).
QNaN == [nan |-> TRUE, n |-> 0, d |-> 1]
Q(n, d) == IF d < 0 THEN [nan |-> FALSE, n |-> -n, d |-> -d]
           ELSE [nan |-> FALSE, n |-> n, d |-> d]
\* the f32 sum that yields the fraction a: kept exact below 2^23, and
\* rounded to a whole number from there on, a tie going to the even one
QRound(a) ==
  IF a.nan THEN a
  ELSE IF a.n < Whole(F32_WHOLE_FROM) * a.d /\ a.n > -Whole(F32_WHOLE_FROM) * a.d THEN a
  ELSE LET k == a.n \div (2 * a.d)
           rem == a.n - 2 * a.d * k
           whole == IF rem < a.d THEN k
                    ELSE IF rem > a.d THEN k + 1
                    ELSE IF k % 2 = 0 THEN k ELSE k + 1
       IN Q(Whole(whole), 1)
\* f32::min and f32::max: the other operand when one is NaN
QMin(a, b) == IF a.nan THEN b ELSE IF b.nan THEN a
              ELSE IF a.n * b.d <= b.n * a.d THEN a ELSE b
QMax(a, b) == IF a.nan THEN b ELSE IF b.nan THEN a
              ELSE IF a.n * b.d >= b.n * a.d THEN a ELSE b
\* floor() as i32 and ceil() as i32 of a fraction of fixed-point values
QFloorI(a) == IF a.nan THEN 0 ELSE a.n \div (2 * a.d)
QCeilI(a) == IF a.nan THEN 0 ELSE -((-a.n) \div (2 * a.d))

(***************************************************************************)
(* Vertex (its fields as vertex_shader reads and writes them).             *)
(***************************************************************************)
Vec3(x, y, z) == [x |-> x, y |-> y, z |-> z]
\* a mesh vertex at fixed-point position (x, y, z); the mesh loader's
\* normal, texture coordinate and colour are the same for every vertex here
Vertex(p) ==
  [position |-> p,
   normal |-> Vec3(Fin(0), Fin(0), Fin(Whole(1))),
   tex_coords |-> <<Fin(0), Fin(0)>>,
   color |-> "white",
   transformed_position |-> p,
   transformed_normal |-> Vec3(Fin(0), Fin(0), Fin(Whole(1)))]

(***************************************************************************)
(* triangle.rs                                                             *)
(***************************************************************************)
None == [some |-> FALSE, nan |-> FALSE, n1 |-> 0, n2 |-> 0, n3 |-> 0, d |-> 1]
Some(n1, n2, n3, d) ==
  IF d < 0 THEN [some |-> TRUE, nan |-> FALSE, n1 |-> -n1, n2 |-> -n2, n3 |-> -n3, d |-> -d]
  ELSE [some |-> TRUE, nan |-> FALSE, n1 |-> n1, n2 |-> n2, n3 |-> n3, d |-> d]
SomeNaN == [some |-> TRUE, nan |-> TRUE, n1 |-> 0, n2 |-> 0, n3 |-> 0, d |-> 1]

\* The weights of the sample (p_x, p_y), both finite fixed-point integers,
\* as fractions n1/d, n2/d, n3/d.  denom.abs() < 1e-10 is denom = 0 on the
\* fixed-point grid.  With a NaN vertex coordinate denom and every weight
\* are NaN, each test is false and Some((NaN, NaN, NaN)) is returned.
barycentric_coordinates(p_x, p_y, a, b, c) ==
  LET ta == a.transformed_position
      tb == b.transformed_position
      tc == c.transformed_position
  IN IF ta.x.nan \/ ta.y.nan \/ tb.x.nan \/ tb.y.nan \/ tc.x.nan \/ tc.y.nan
     THEN SomeNaN
     ELSE
       LET a_x == ta.x.v
           a_y == ta.y.v
           b_x == tb.x.v
           b_y == tb.y.v
           c_x == tc.x.v
           c_y == tc.y.v
           denom == (b_y - c_y) * (a_x - c_x) + (c_x - b_x) * (a_y - c_y)
           s == IF denom < 0 THEN -1 ELSE 1
           \* the numerators of w1 and w2, and |denom|: w = s*num / |denom|
           num1 == s * ((b_y - c_y) * (p_x - c_x) + (c_x - b_x) * (p_y - c_y))
           num2 == s * ((c_y - a_y) * (p_x - c_x) + (a_x - c_x) * (p_y - c_y))
           den == s * denom
           num3 == den - num1 - num2
       IN IF denom = 0 THEN None
          ELSE IF num1 < 0 \/ num1 > den THEN None
          ELSE IF num2 < 0 \/ num2 > den THEN None
          ELSE IF num3 < 0 THEN None
          ELSE Some(num1, num2, num3, den)

\* verts.sort_by(y): a stable insertion sort of the three vertices
InsertByY(sorted, v) ==
  IF Len(sorted) = 0 THEN <<v>>
  ELSE IF Len(sorted) = 1
    THEN IF v.transformed_position.y.v < sorted[1].transformed_position.y.v
         THEN <<v, sorted[1]>> ELSE <<sorted[1], v>>
  ELSE IF v.transformed_position.y.v < sorted[1].transformed_position.y.v
         THEN <<v, sorted[1], sorted[2]>>
  ELSE IF v.transformed_position.y.v < sorted[2].transformed_position.y.v
         THEN <<sorted[1], v, sorted[2]>>
  ELSE <<sorted[1], sorted[2], v>>
SortByY(v1, v2, v3) == InsertByY(InsertByY(<<v1>>, v2), v3)

\* partial_cmp(..).unwrap() inside the sort: every vertex is compared with
\* another one, and comparing a NaN y yields None, on which unwrap panics
SortPanics(v1, v2, v3) ==
  \/ v1.transformed_position.y.nan
  \/ v2.transformed_position.y.nan
  \/ v3.transformed_position.y.nan

\* `cross <= 0.0` of the sorted vertices; a NaN cross compares false
BackfaceCulled_Flipped(verts) ==
  LET top == verts[1].transformed_position
      mid == verts[2].transformed_position
      bottom == verts[3].transformed_position
  IN IF top.x.nan \/ mid.x.nan \/ bottom.x.nan THEN FALSE
     ELSE (mid.x.v - top.x.v) * (bottom.y.v - top.y.v)
          - (mid.y.v - top.y.v) * (bottom.x.v - top.x.v) >= 0

BackfaceCulled(verts) ==
  LET top == verts[1].transformed_position
      mid == verts[2].transformed_position
      bottom == verts[3].transformed_position
  IN IF top.x.nan \/ mid.x.nan \/ bottom.x.nan THEN FALSE
     ELSE LET edge1_x == mid.x.v - top.x.v
              edge1_y == mid.y.v - top.y.v
              edge2_x == bottom.x.v - top.x.v
              edge2_y == bottom.y.v - top.y.v
              \* in quarter units squared: the sign is that of the f32 cross
              cross == edge1_x * edge2_y - edge1_y * edge2_x
          IN cross <= 0

\* The x-intersections of the scanline through y_f with the three edges
\* verts[i] -> verts[(i+1) % 3], in edge order.  (y2 - y1).abs() < 0.01 is
\* y2 = y1 on the fixed-point grid.
\* as EdgeIntersections, but with the lower end of an edge's y range closed
RECURSIVE EdgeIntersections_Closed(_, _, _)
EdgeIntersections_Closed(verts, y_f, i) ==
  IF i > 3 THEN <<>>
  ELSE
    LET v_a == verts[i].transformed_position
        v_b == verts[(i % 3) + 1].transformed_position
        y1 == v_a.y.v
        y2 == v_b.y.v
        rest == EdgeIntersections_Closed(verts, y_f, i + 1)
    IN IF y2 = y1 THEN rest
       ELSE IF (y_f >= y1 /\ y_f <= y2) \/ (y_f >= y2 /\ y_f <= y1)
         THEN LET x == IF v_a.x.nan \/ v_b.x.nan THEN QNaN
                       ELSE QRound(Q(v_a.x.v * (y2 - y1)
                                     + (y_f - y1) * (v_b.x.v - v_a.x.v),
                                     y2 - y1))
              IN <<x>> \o rest
       ELSE rest

RECURSIVE EdgeIntersections(_, _, _)
EdgeIntersections(verts, y_f, i) ==
  IF i > 3 THEN <<>>
  ELSE
    LET v_a == verts[i].transformed_position
        v_b == verts[(i % 3) + 1].transformed_position
        y1 == v_a.y.v
        y2 == v_b.y.v
        rest == EdgeIntersections(verts, y_f, i + 1)
    IN IF y2 = y1 THEN rest
       ELSE IF (y_f >= y1 /\ y_f < y2) \/ (y_f >= y2 /\ y_f < y1)
         THEN LET x == IF v_a.x.nan \/ v_b.x.nan THEN QNaN
                       \* v_a.x + t * (v_b.x - v_a.x), t = (y_f - y1) / (y2 - y1)
                       ELSE QRound(Q(v_a.x.v * (y2 - y1)
                                     + (y_f - y1) * (v_b.x.v - v_a.x.v),
                                     y2 - y1))
              IN <<x>> \o rest
       ELSE rest

\* w1 * a + w2 * b + w3 * c for three f32 attributes, as a fraction
Interpolate(w, a, b, c) ==
  IF w.nan \/ a.nan \/ b.nan \/ c.nan THEN QNaN
  ELSE Q(w.n1 * a.v + w.n2 * b.v + w.n3 * c.v, w.d)

\* A colour is held as a record naming what computed it.  The rasteriser's
\* provisional colour is the lit base grey (0.5 * intensity per channel).
LitGrey == [by |-> "triangle"]

\* Fragment::new_with_world_pos(p_x, y_f, shaded_color, depth, world_pos)
Fragment(p_x, y_f, w, v1, v2, v3) ==
  [position |-> [x |-> p_x, y |-> y_f],
   color |-> LitGrey,
   depth |-> Interpolate(w, v1.transformed_position.z,
                         v2.transformed_position.z, v3.transformed_position.z),
   world_position |->
     Vec3(Interpolate(w, v1.position.x, v2.position.x, v3.position.x),
          Interpolate(w, v1.position.y, v2.position.y, v3.position.y),
          Interpolate(w, v1.position.z, v2.position.z, v3.position.z))]

\* for x in x_min..=x_max: the fragments of one scanline, left to right
RECURSIVE ScanlineFragments(_, _, _, _, _, _)
ScanlineFragments(x, x_max, y_f, v1, v2, v3) ==
  IF x > x_max THEN <<>>
  ELSE LET p_x == Centre(x)
           w == barycentric_coordinates(p_x, y_f, v1, v2, v3)
           rest == ScanlineFragments(x + 1, x_max, y_f, v1, v2, v3)
       IN IF w.some THEN <<Fragment(p_x, y_f, w, v1, v2, v3)>> \o rest
          ELSE rest

\* for y in min_y..=max_y: the fragments of the scanlines, top to bottom
RECURSIVE Scanlines(_, _, _, _, _, _)
Scanlines(y, max_y, verts, v1, v2, v3) ==
  IF y > max_y THEN <<>>
  ELSE LET y_f == Centre(y)
           x_intersections == EdgeIntersections(verts, y_f, 1)
           rest == Scanlines(y + 1, max_y, verts, v1, v2, v3)
       IN IF Len(x_intersections) < 2 THEN rest
          ELSE LET x_min == QFloorI(QMin(x_intersections[1], x_intersections[2]))
                   x_max == QCeilI(QMax(x_intersections[1], x_intersections[2]))
               IN ScanlineFragments(x_min, x_max, y_f, v1, v2, v3) \o rest

\* triangle(v1, v2, v3, light): the light only enters the provisional
\* colour.  The result is the fragment list, or a panic.
triangle(v1, v2, v3) ==
  IF SortPanics(v1, v2, v3) THEN [panic |-> TRUE, fragments |-> <<>>]
  ELSE LET verts == SortByY(v1, v2, v3)
       IN IF BackfaceCulled(verts) THEN [panic |-> FALSE, fragments |-> <<>>]
          ELSE LET min_y == FloorI(verts[1].transformed_position.y.v)
                   max_y == CeilI(verts[3].transformed_position.y.v)
               IN [panic |-> FALSE,
                   fragments |-> Scanlines(min_y, max_y, verts, v1, v2, v3)]

(***************************************************************************)
(* shaders.rs                                                              *)
(***************************************************************************)
\* A 4x4 matrix is the sequence m0 .. m15 of its entries (whole numbers),
\* held at index 1 .. 16; glm's column-major slice is copied entry by entry.
glm_to_raylib(mat) == [i \in 1..16 |-> mat[i]]

Vec4(x, y, z, w) == [x |-> x, y |-> y, z |-> z, w |-> w]
multiply_matrix_vector4(matrix, vector) ==
  LET Row(a, b, c, d) ==
        FAdd(FAdd(FAdd(FScale(matrix[a], vector.x), FScale(matrix[b], vector.y)),
                  FScale(matrix[c], vector.z)), FScale(matrix[d], vector.w))
  IN Vec4(Row(1, 5, 9, 13), Row(2, 6, 10, 14), Row(3, 7, 11, 15), Row(4, 8, 12, 16))

\* a / w for two fixed-point values; the bundles drawn keep it on the grid
FDiv(a, w) == IF a.nan \/ w.nan THEN NaN ELSE Fin((Whole(1) * a.v) \div w.v)

\* as vertex_shader, but with the model matrix applied to the normal
vertex_shader_NormalTransformed(vertex, u) ==
  LET n == multiply_matrix_vector4(glm_to_raylib(u.projection_matrix),
             Vec4(vertex.normal.x, vertex.normal.y, vertex.normal.z, Fin(0)))
      position_vec4 == Vec4(vertex.position.x, vertex.position.y,
                            vertex.position.z, Fin(Whole(1)))
      screen_position ==
        multiply_matrix_vector4(glm_to_raylib(u.viewport_matrix), position_vec4)
  IN [position |-> vertex.position,
      normal |-> vertex.normal,
      tex_coords |-> vertex.tex_coords,
      color |-> vertex.color,
      transformed_position |->
        Vec3(screen_position.x, screen_position.y, screen_position.z),
      transformed_normal |-> Vec3(n.x, n.y, n.z)]

vertex_shader(vertex, u) ==
  LET model_mat == glm_to_raylib(u.model_matrix)
      view_mat == glm_to_raylib(u.view_matrix)
      proj_mat == glm_to_raylib(u.projection_matrix)
      viewport_mat == glm_to_raylib(u.viewport_matrix)
      position_vec4 == Vec4(vertex.position.x, vertex.position.y,
                            vertex.position.z, Fin(Whole(1)))
      world_position == multiply_matrix_vector4(model_mat, position_vec4)
      view_position == multiply_matrix_vector4(view_mat, world_position)
      clip_position == multiply_matrix_vector4(proj_mat, view_position)
      \* clip_position.w != 0.0 holds of NaN
      ndc == IF clip_position.w.nan \/ clip_position.w.v # 0
             THEN Vec3(FDiv(clip_position.x, clip_position.w),
                       FDiv(clip_position.y, clip_position.w),
                       FDiv(clip_position.z, clip_position.w))
             ELSE Vec3(clip_position.x, clip_position.y, clip_position.z)
      ndc_vec4 == Vec4(ndc.x, ndc.y, ndc.z, Fin(Whole(1)))
      screen_position == multiply_matrix_vector4(viewport_mat, ndc_vec4)
      transformed_position ==
        Vec3(screen_position.x, screen_position.y, screen_position.z)
  IN [position |-> vertex.position,
      normal |-> vertex.normal,
      tex_coords |-> vertex.tex_coords,
      color |-> vertex.color,
      transformed_position |-> transformed_position,
      transformed_normal |-> vertex.normal]

\* The five procedural materials.  Each is a function of the fragment's
\* world position, its incoming colour and the time alone; the colour it
\* returns is held as that function's application, not as channel values.
\* as shader_terra, but animated by the fragment's depth instead of the time
shader_terra_ReadsDepth(fragment, time) ==
  [by |-> "shader_terra", p |-> fragment.world_position,
   base_color |-> fragment.color, time |-> fragment.depth.n]

shader_terra(fragment, time) ==
  [by |-> "shader_terra", p |-> fragment.world_position,
   base_color |-> fragment.color, time |-> time]
shader_vulcan(fragment, time) ==
  [by |-> "shader_vulcan", p |-> fragment.world_position,
   base_color |-> fragment.color, time |-> time]
shader_solarius(fragment, time) ==
  [by |-> "shader_solarius", p |-> fragment.world_position,
   base_color |-> fragment.color, time |-> time]
shader_nepturion(fragment, time) ==
  [by |-> "shader_nepturion", p |-> fragment.world_position,
   base_color |-> fragment.color, time |-> time]
shader_mossar(fragment, time) ==
  [by |-> "shader_mossar", p |-> fragment.world_position,
   base_color |-> fragment.color, time |-> time]

PlanetShaderType == {"Terra", "Vulcan", "Solarius", "Nepturion", "Mossar"}

fragment_shader(fragment, u, planet_type) ==
  LET time == u.time
  IN CASE planet_type = "Terra" -> shader_terra(fragment, time)
       [] planet_type = "Vulcan" -> shader_vulcan(fragment, time)
       [] planet_type = "Solarius" -> shader_solarius(fragment, time)
       [] planet_type = "Nepturion" -> shader_nepturion(fragment, time)
       [] planet_type = "Mossar" -> shader_mossar(fragment, time)

(***************************************************************************)
(* main.rs: CelestialBody and SpaceshipCamera.                             *)
(*                                                                         *)
(* The camera's numbers are held in three fixed-point scales: a length in  *)
(* tenths of a world unit, an angle in thousandths of a radian, a          *)
(* component of a direction in thousandths; a product or quotient is       *)
(* truncated to its scale, where f32 rounds to 24 bits.  cos and sin are   *)
(* the first six terms of their series.  A time step is a number of        *)
(* tenths of a second.                                                     *)
(***************************************************************************)
\* a vector of integers (lengths or direction components)
IVec(x, y, z) == [x |-> x, y |-> y, z |-> z]
IAdd(a, b) == IVec(a.x + b.x, a.y + b.y, a.z + b.z)
ISub(a, b) == IVec(a.x - b.x, a.y - b.y, a.z - b.z)
\* n / d truncated toward zero
Trunc(n, d) == IF n >= 0 THEN n \div d ELSE -((-n) \div d)
\* the integer part of the square root of s, found between lo and hi
RECURSIVE SqrtBetween(_, _, _)
SqrtBetween(lo, hi, s) ==
  IF lo >= hi THEN lo
  ELSE LET mid == (lo + hi + 1) \div 2
       IN IF mid * mid <= s THEN SqrtBetween(mid, hi, s)
          ELSE SqrtBetween(lo, mid - 1, s)
\* Vec3::norm
Norm(v) == SqrtBetween(0, 20000, v.x * v.x + v.y * v.y + v.z * v.z)

\* f32::cos and f32::sin of an angle in thousandths of a radian, in
\* thousandths
Cos(a) ==
  LET a2 == (a * a) \div 1000
      t2 == (1000 * a2) \div 2000
      t3 == (t2 * a2) \div 12000
      t4 == (t3 * a2) \div 30000
      t5 == (t4 * a2) \div 56000
      t6 == (t5 * a2) \div 90000
  IN 1000 - t2 + t3 - t4 + t5 - t6
RECURSIVE Sin(_)
Sin(a) ==
  IF a < 0 THEN -Sin(-a)
  ELSE LET a2 == (a * a) \div 1000
           t2 == (a * a2) \div 6000
           t3 == (t2 * a2) \div 20000
           t4 == (t3 * a2) \div 42000
           t5 == (t4 * a2) \div 72000
           t6 == (t5 * a2) \div 110000
       IN a - t2 + t3 - t4 + t5 - t6
\* std::f32::consts::PI, PI / 2.0 and PI / 2.5 in thousandths of a radian
PI == 3142
HalfPI == PI \div 2
PitchLimit == (2 * PI) \div 5

\* CelestialBody::new: the body starts on the x axis at its orbit radius
\* (orbit_radius and scale in tenths of a unit)
CelestialBody(name, orbit_radius, scale) ==
  [name |-> name, position |-> IVec(orbit_radius, 0, 0), scale |-> scale,
   orbit_radius |-> orbit_radius]
\* the bodies main builds: Sol, Terra, Vulcan, Nepturion and Mossar
Planets ==
  <<CelestialBody("Sol", 0, 250), CelestialBody("Terra", 1500, 150),
    CelestialBody("Vulcan", 2500, 140), CelestialBody("Nepturion", 4000, 220),
    CelestialBody("Mossar", 5500, 180)>>
\* CelestialBody::update, for the orbit angles whose cosine and sine are
\* 0 or 1: the body a quarter of its orbit on
QuarterOrbit(body) ==
  [body EXCEPT !.position = IVec(0, 0, body.orbit_radius)]

\* SpaceshipCamera::new (speed 50.0 in whole units, turn_speed 1.5 in
\* tenths of a radian per second)
SpaceshipCamera(position) ==
  [position |-> position, yaw |-> 0, pitch |-> 0, velocity |-> IVec(0, 0, 0),
   speed |-> 50, turn_speed |-> 15]

get_forward(self) ==
  IVec(Trunc(Cos(self.yaw) * Cos(self.pitch), 1000),
       Sin(self.pitch),
       Trunc(Sin(self.yaw) * Cos(self.pitch), 1000))

get_right(self) ==
  IVec(Cos(self.yaw - HalfPI), 0, Sin(self.yaw - HalfPI))

\* the keys update reads, and window.is_key_down on the set of keys held
Keys == {"W", "S", "A", "D", "Space", "LeftShift", "Left", "Right", "Up", "Down"}
is_key_down(window, key) == key \in window

\* lines 167-186: the sum of the directions of the keys held
Movement(self, window) ==
  LET zero == IVec(0, 0, 0)
      up == IVec(0, 1000, 0)
      m1 == IF is_key_down(window, "W") THEN IAdd(zero, get_forward(self)) ELSE zero
      m2 == IF is_key_down(window, "S") THEN ISub(m1, get_forward(self)) ELSE m1
      m3 == IF is_key_down(window, "A") THEN ISub(m2, get_right(self)) ELSE m2
      m4 == IF is_key_down(window, "D") THEN IAdd(m3, get_right(self)) ELSE m3
      m5 == IF is_key_down(window, "Space") THEN IAdd(m4, up) ELSE m4
  IN IF is_key_down(window, "LeftShift") THEN ISub(m5, up) ELSE m5

\* f32::clamp(-PI / 2.5, PI / 2.5)
ClampPitch(pitch) ==
  IF pitch < -PitchLimit THEN -PitchLimit
  ELSE IF pitch > PitchLimit THEN PitchLimit
  ELSE pitch

\* lines 188-201: yaw and pitch after the arrow keys
Turned(self, window, delta_time) ==
  LET turn == self.turn_speed * delta_time * 10
      yaw1 == IF is_key_down(window, "Left") THEN self.yaw + turn ELSE self.yaw
      yaw2 == IF is_key_down(window, "Right") THEN yaw1 - turn ELSE yaw1
      pitch1 == IF is_key_down(window, "Up") THEN ClampPitch(self.pitch + turn)
                ELSE self.pitch
      pitch2 == IF is_key_down(window, "Down") THEN ClampPitch(pitch1 - turn)
                ELSE pitch1
  IN [self EXCEPT !.yaw = yaw2, !.pitch = pitch2]

\* Vec3::normalize, applied to a movement of positive length only
Normalize(movement) ==
  LET movement_length == Norm(movement)
  IN IF movement_length > 0
     THEN IVec(Trunc(movement.x * 1000, movement_length),
               Trunc(movement.y * 1000, movement_length),
               Trunc(movement.z * 1000, movement_length))
     ELSE movement

\* line 208: self.position + movement * self.speed * delta_time
NewPosition(self, movement, delta_time) ==
  IAdd(self.position,
       IVec(Trunc(movement.x * self.speed * delta_time, 1000),
            Trunc(movement.y * self.speed * delta_time, 1000),
            Trunc(movement.z * self.speed * delta_time, 1000)))

\* the collision test that looks at the first planet only
Collision_FirstPlanet(new_position, planets_) ==
  /\ planets_ # <<>>
  /\ Norm(ISub(new_position, planets_[1].position)) < planets_[1].scale + 150

\* lines 210-219: the loop over the planets, left at the first one closer
\* than its scale + 15.0
RECURSIVE CollisionFrom(_, _, _)
CollisionFrom(new_position, planets_, i) ==
  IF i > Len(planets_) THEN FALSE
  ELSE LET planet == planets_[i]
           distance == Norm(ISub(new_position, planet.position))
           min_distance == planet.scale + 150
       IN IF distance < min_distance THEN TRUE
          ELSE CollisionFrom(new_position, planets_, i + 1)
Collision(new_position, planets_) == CollisionFrom(new_position, planets_, 1)

\* SpaceshipCamera::update.  The movement is summed before the arrow keys
\* turn the camera, so it follows the directions of the call's start.
Candidate(self, window, delta_time) ==
  LET movement == Normalize(Movement(self, window))
  IN NewPosition(Turned(self, window, delta_time), movement, delta_time)
update(self, window, delta_time, planets_) ==
  LET turned == Turned(self, window, delta_time)
      new_position == Candidate(self, window, delta_time)
  IN IF ~Collision(new_position, planets_)
     THEN [turned EXCEPT !.position = new_position]
     ELSE turned

(***************************************************************************)
(* main.rs: render, as a state machine over one call.                      *)
(***************************************************************************)
VARIABLES
  vertex_array,          \* the mesh's vertex stream
  uniforms,              \* the transform bundle and the scene time
  planet_type,           \* the material tag
  framebuffer,           \* width, height, current colour, pixel and depth buffers
  pc,                    \* where the call stands
  transformed_vertices, triangles_vec, visible_triangles,
  triangles_to_process, fragments,
  tri_i,                 \* the index of the next triangle of the raster loop
  batch_start,           \* the first fragment of the next batch (0-based)
  elapsed,               \* start_time.elapsed().as_millis() at its last reading
  raster_log,            \* history: the triangle() calls made, with their results
  point_calls,           \* history: the framebuffer.point calls made
  args, tpc, result, first_call,  \* triangle() called on its own
  camera, planets,       \* the spaceship camera and the bodies of the scene
  update_call            \* history: the last camera.update call

vars == <<vertex_array, uniforms, planet_type, framebuffer, pc,
          transformed_vertices, triangles_vec, visible_triangles,
          triangles_to_process, fragments, tri_i, batch_start, elapsed,
          raster_log, point_calls, args, tpc, result, first_call,
          camera, planets, update_call>>

render_vars == <<vertex_array, uniforms, planet_type, framebuffer, pc,
          transformed_vertices, triangles_vec, visible_triangles,
          triangles_to_process, fragments, tri_i, batch_start, elapsed,
          raster_log, point_calls>>
triangle_vars == <<args, tpc, result, first_call>>
camera_vars == <<camera, planets, update_call>>

\* The budgets of render.  The source sets 1500 vertices, 500 triangles,
\* 15000 fragments and batches of 1000; the model runs the same code with
\* small budgets in the same order (max_triangles = max_vertices / 3,
\* rounded down), so that every budget is reached by a short stream.
max_vertices == 7
max_triangles == 2
max_fragments == 6
BATCH_SIZE == 4
\* avg_z > -2000.0 && avg_z < 2000.0, and elapsed().as_millis() > 50
DEPTH_NEAR == -2000
DEPTH_FAR == 2000
TIME_LIMIT_MS == 50

\* The framebuffer's size, and the longest mesh, in triangles.
FB_WIDTH == 3
FB_HEIGHT == 3
MaxMeshTriangles == 4

Min(a, b) == IF a <= b THEN a ELSE b

(***************************************************************************)
(* framebuffer.rs is not among the sources: point and set_current_color    *)
(* follow the interface the specification gives (a per-pixel depth test,   *)
(* nearer wins, ties overwrite; a cleared depth is +infinity).             *)
(***************************************************************************)
QInf == [nan |-> FALSE, n |-> 1, d |-> 0]
Background == [packed |-> [by |-> "clear"]]
NewFramebuffer(width, height) ==
  [width |-> width, height |-> height, current_color |-> Background,
   buffer |-> [i \in 0..(width * height - 1) |-> Background],
   zbuffer |-> [i \in 0..(width * height - 1) |-> QInf]]
set_current_color(fb, color) == [fb EXCEPT !.current_color = color]
point(fb, x, y, depth) ==
  LET i == y * fb.width + x
      old == fb.zbuffer[i]
  IN IF ~depth.nan /\ depth.n * old.d <= old.n * depth.d
     THEN [fb EXCEPT !.buffer[i] = fb.current_color, !.zbuffer[i] = depth]
     ELSE fb

\* `as usize` of an f32 held in fixed point: truncation toward zero,
\* a negative value saturating to 0
AsUsize(v) == IF v < 0 THEN 0 ELSE v \div 2

\* f32::clamp(0.0, 1.0): NaN stays NaN
Clamp01(c) ==
  IF c.nan THEN NaN
  ELSE IF c.v < 0 THEN Fin(0)
  ELSE IF c.v > Whole(1) THEN Fin(Whole(1))
  ELSE c
\* `as u32` of an f32: truncation, NaN and negative values giving 0 (the
\* values cast here stay far below 2^32)
AsU32(c) == IF c.nan \/ c.v < 0 THEN 0 ELSE c.v \div 2
\* a << k and a | b on u32 (no bit is shifted out of the values packed here)
Shl(a, k) == a * 2^k
RECURSIVE BitOr(_, _)
BitOr(a, b) ==
  IF a = 0 THEN b
  ELSE IF b = 0 THEN a
  ELSE (IF a % 2 = 1 \/ b % 2 = 1 THEN 1 ELSE 0) + 2 * BitOr(a \div 2, b \div 2)

\* the packing without the clamp: (c * 255.0) as u32 per channel
PackColor_NoClamp(color) ==
  IF "by" \in DOMAIN color THEN [packed |-> [by |-> "unclamped"]]
  ELSE LET r == AsU32(FScale(255, color.x))
           g == AsU32(FScale(255, color.y))
           b == AsU32(FScale(255, color.z))
       IN [packed |-> BitOr(BitOr(Shl(r, 16), Shl(g, 8)), b)]

\* (r << 16) | (g << 8) | b of the clamped channels.  A colour held as a
\* material function's application has no channel values and is packed
\* as itself; a colour given by its channels x, y, z is packed as the
\* code packs it.
PackColor(color) ==
  IF "by" \in DOMAIN color THEN [packed |-> color]
  ELSE LET r == AsU32(FScale(255, Clamp01(color.x)))
           g == AsU32(FScale(255, Clamp01(color.y)))
           b == AsU32(FScale(255, Clamp01(color.z)))
       IN [packed |-> BitOr(BitOr(Shl(r, 16), Shl(g, 8)), b)]

(***************************************************************************)
(* The steps of render.                                                    *)
(***************************************************************************)
\* main.rs 402-413: the vertex budget and the vertex shader loop
VerticesToProcess_NoBudget(va) == va

VerticesToProcess(va) ==
  IF Len(va) > max_vertices THEN SubSeq(va, 1, max_vertices) ELSE va

TransformVertices ==
  /\ pc = "transform"
  /\ LET vertices_to_process == VerticesToProcess(vertex_array)
     IN transformed_vertices' =
          [i \in 1..Len(vertices_to_process) |->
             vertex_shader(vertices_to_process[i], uniforms)]
  /\ pc' = "assemble"
  /\ UNCHANGED <<vertex_array, uniforms, planet_type, framebuffer, triangles_vec,
                 visible_triangles, triangles_to_process, fragments, tri_i,
                 batch_start, elapsed, raster_log, point_calls>>
  /\ UNCHANGED triangle_vars
  /\ UNCHANGED camera_vars

\* main.rs 415-424: for i in (0..len).step_by(3), if i + 2 < len
RECURSIVE Assemble_ShortByOne(_, _)
Assemble_ShortByOne(tv, i) ==
  IF i >= Len(tv) THEN <<>>
  ELSE IF i + 3 < Len(tv)
    THEN <<(<<tv[i + 1], tv[i + 2], tv[i + 3]>>)>> \o Assemble_ShortByOne(tv, i + 3)
  ELSE Assemble_ShortByOne(tv, i + 3)

RECURSIVE Assemble(_, _)
Assemble(tv, i) ==
  IF i >= Len(tv) THEN <<>>
  ELSE IF i + 2 < Len(tv)
    THEN <<(<<tv[i + 1], tv[i + 2], tv[i + 3]>>)>> \o Assemble(tv, i + 3)
  ELSE Assemble(tv, i + 3)

AssembleTriangles ==
  /\ pc = "assemble"
  /\ triangles_vec' = Assemble(transformed_vertices, 0)
  /\ pc' = "cull"
  /\ UNCHANGED <<vertex_array, uniforms, planet_type, framebuffer,
                 transformed_vertices, visible_triangles, triangles_to_process,
                 fragments, tri_i, batch_start, elapsed, raster_log, point_calls>>
  /\ UNCHANGED triangle_vars
  /\ UNCHANGED camera_vars

\* main.rs 426-435: avg_z > -2000.0 && avg_z < 2000.0, avg_z the sum of
\* the three z over 3.0 (compared as sum against 3 * bound); NaN fails both
DepthVisible_NoFarTest(tri) ==
  LET z1 == tri[1].transformed_position.z
      z2 == tri[2].transformed_position.z
      z3 == tri[3].transformed_position.z
      sum == FAdd(FAdd(z1, z2), z3)
  IN /\ ~sum.nan
     /\ sum.v > 3 * Whole(DEPTH_NEAR)

DepthVisible_Inclusive(tri) ==
  LET z1 == tri[1].transformed_position.z
      z2 == tri[2].transformed_position.z
      z3 == tri[3].transformed_position.z
      sum == FAdd(FAdd(z1, z2), z3)
  IN /\ ~sum.nan
     /\ sum.v >= 3 * Whole(DEPTH_NEAR)
     /\ sum.v <= 3 * Whole(DEPTH_FAR)

DepthVisible(tri) ==
  LET z1 == tri[1].transformed_position.z
      z2 == tri[2].transformed_position.z
      z3 == tri[3].transformed_position.z
      sum == FAdd(FAdd(z1, z2), z3)
  IN /\ ~sum.nan
     /\ sum.v > 3 * Whole(DEPTH_NEAR)
     /\ sum.v < 3 * Whole(DEPTH_FAR)

RECURSIVE Visible(_, _)
Visible(tris, i) ==
  IF i > Len(tris) THEN <<>>
  ELSE IF DepthVisible(tris[i]) THEN <<tris[i]>> \o Visible(tris, i + 1)
  ELSE Visible(tris, i + 1)

\* main.rs 437-438
TrianglesToProcess_OneLess(visible) == Min(Len(visible), max_triangles - 1)

TrianglesToProcess(visible) == Min(Len(visible), max_triangles)

DepthCull ==
  /\ pc = "cull"
  /\ visible_triangles' = Visible(triangles_vec, 1)
  /\ triangles_to_process' = TrianglesToProcess(visible_triangles')
  /\ pc' = "raster"
  /\ UNCHANGED <<vertex_array, uniforms, planet_type, framebuffer,
                 transformed_vertices, triangles_vec, fragments, tri_i,
                 batch_start, elapsed, raster_log, point_calls>>
  /\ UNCHANGED triangle_vars
  /\ UNCHANGED camera_vars

\* main.rs 443-457: one iteration of the raster loop
\* the fragments kept of one triangle's list
Collect_NoTruncation(frags, tri_fragments) == frags \o tri_fragments

\* as Collect, but keeping the last fragments of the triangle that does
\* not fit, not the first
Collect_KeepLast(frags, tri_fragments) ==
  LET space_left == max_fragments - Len(frags)
  IN IF Len(tri_fragments) <= space_left THEN frags \o tri_fragments
     ELSE frags \o SubSeq(tri_fragments, Len(tri_fragments) - space_left + 1,
                          Len(tri_fragments))

Collect(frags, tri_fragments) ==
  LET space_left == max_fragments - Len(frags)
  IN IF Len(tri_fragments) <= space_left THEN frags \o tri_fragments
     ELSE frags \o SubSeq(tri_fragments, 1, space_left)

\* `if fragments.len() >= max_fragments { break; }`
BudgetReached(frags) == Len(frags) >= max_fragments

RasterUnchanged ==
  /\ UNCHANGED <<vertex_array, uniforms, planet_type, framebuffer,
                 transformed_vertices, triangles_vec, visible_triangles,
                 triangles_to_process, batch_start, elapsed, point_calls>>
  /\ UNCHANGED triangle_vars
  /\ UNCHANGED camera_vars

\* the loop is over, or the budget was reached before the next triangle
RasterEnd ==
  /\ pc = "raster"
  /\ tri_i > triangles_to_process \/ BudgetReached(fragments)
  /\ pc' = "shade"
  /\ UNCHANGED <<fragments, tri_i, raster_log>>
  /\ RasterUnchanged

RasterTriangle ==
  /\ pc = "raster"
  /\ tri_i <= triangles_to_process
  /\ ~BudgetReached(fragments)
  /\ LET tri == visible_triangles[tri_i]
         r == triangle(tri[1], tri[2], tri[3])
         space_left == max_fragments - Len(fragments)
     IN /\ raster_log' = Append(raster_log,
                                [tri |-> tri_i, panic |-> r.panic,
                                 count |-> Len(r.fragments)])
        /\ IF r.panic
           THEN /\ pc' = "panicked"
                /\ UNCHANGED <<fragments, tri_i>>
           ELSE /\ fragments' = Collect(fragments, r.fragments)
                /\ tri_i' = tri_i + 1
                \* the else branch breaks out of the loop
                /\ pc' = IF Len(r.fragments) <= space_left THEN "raster" ELSE "shade"
  /\ RasterUnchanged

\* main.rs 459-482: one batch: shade and write each fragment, then read
\* the clock
ShadeFragment(f) == [f EXCEPT !.color = fragment_shader(f, uniforms, planet_type)]

\* `x < framebuffer.width && y < framebuffer.height` on the cast coordinates
InBounds(fb, x, y) == x < fb.width /\ y < fb.height

WriteFragment(fb, f) ==
  LET x == AsUsize(f.position.x)
      y == AsUsize(f.position.y)
  IN IF InBounds(fb, x, y)
     THEN point(set_current_color(fb, PackColor(f.color)), x, y, f.depth)
     ELSE fb

RECURSIVE WriteBatch(_, _, _, _)
WriteBatch(fb, frags, i, batch_end) ==
  IF i > batch_end THEN fb
  ELSE WriteBatch(WriteFragment(fb, frags[i]), frags, i + 1, batch_end)

RECURSIVE CallsOfBatch(_, _, _, _)
CallsOfBatch(fb, frags, i, batch_end) ==
  IF i > batch_end THEN <<>>
  ELSE LET x == AsUsize(frags[i].position.x)
           y == AsUsize(frags[i].position.y)
           rest == CallsOfBatch(fb, frags, i + 1, batch_end)
       IN IF InBounds(fb, x, y)
          THEN <<[fragment |-> i, x |-> x, y |-> y, color |-> frags[i].color]>> \o rest
          ELSE rest

BatchEnd_OneShort(frags, start) == Min(start + BATCH_SIZE - 1, Len(frags))

BatchEnd(frags, start) == Min(start + BATCH_SIZE, Len(frags))

\* the fragment list after `fragment.color = fragment_shader(..)` on the
\* fragments batch_start .. batch_end - 1 (0-based)
ShadeRange_OneShort(frags, start, batch_end) ==
  [i \in 1..Len(frags) |->
     IF i > start /\ i < batch_end THEN ShadeFragment(frags[i]) ELSE frags[i]]

ShadeRange(frags, start, batch_end) ==
  [i \in 1..Len(frags) |->
     IF i > start /\ i <= batch_end THEN ShadeFragment(frags[i]) ELSE frags[i]]

\* the readings of the clock: at or after the last one
Clock == {0, TIME_LIMIT_MS, TIME_LIMIT_MS + 1}

\* (0..fragments.len()).step_by(BATCH_SIZE): the start of the next batch
NextBatchStart_Stuck(start) == start

NextBatchStart(start) == start + BATCH_SIZE

ShadeBatch ==
  /\ pc = "shade"
  /\ batch_start < Len(fragments)
  /\ LET batch_end == BatchEnd(fragments, batch_start)
         shaded == ShadeRange(fragments, batch_start, batch_end)
     IN /\ fragments' = shaded
        /\ framebuffer' = WriteBatch(framebuffer, shaded, batch_start + 1, batch_end)
        /\ point_calls' = point_calls \o
                          CallsOfBatch(framebuffer, shaded, batch_start + 1, batch_end)
  /\ \E now \in Clock :
        /\ now >= elapsed
        /\ elapsed' = now
        /\ IF now > TIME_LIMIT_MS
           THEN /\ pc' = "done"
                /\ UNCHANGED batch_start
           ELSE /\ batch_start' = NextBatchStart(batch_start)
                /\ UNCHANGED pc
  /\ UNCHANGED <<vertex_array, uniforms, planet_type, transformed_vertices,
                 triangles_vec, visible_triangles, triangles_to_process, tri_i,
                 raster_log>>
  /\ UNCHANGED triangle_vars
  /\ UNCHANGED camera_vars

\* no batch is left
ShadeEnd ==
  /\ pc = "shade"
  /\ batch_start >= Len(fragments)
  /\ pc' = "done"
  /\ UNCHANGED <<vertex_array, uniforms, planet_type, framebuffer,
                 transformed_vertices, triangles_vec, visible_triangles,
                 triangles_to_process, fragments, tri_i, batch_start, elapsed,
                 raster_log, point_calls>>
  /\ UNCHANGED triangle_vars
  /\ UNCHANGED camera_vars

(***************************************************************************)
(* The inputs of render.                                                   *)
(***************************************************************************)
\* a mesh vertex from pixel coordinates x, y (in halves) and a depth z
MeshVertex(x, y, z) == Vertex(Vec3(Fin(x), Fin(y), Fin(Whole(z))))
NaNVertex == Vertex(Vec3(Fin(0), NaN, Fin(0)))

\* The triangles a mesh is made of: two front-facing right triangles (legs
\* of 3 and of 2 pixels), the second one reversed, one on the far
\* bound, one with its vertices on both sides of the depth window, one on
\* the near bound, one with a NaN coordinate, one whose average depth is
\* just inside the far bound, and one whose unequal depths average to the
\* near bound.
MeshTriangles ==
  << <<MeshVertex(0, 0, 0), MeshVertex(6, 0, 0), MeshVertex(0, 6, 0)>>,
     <<MeshVertex(1, 1, 10), MeshVertex(5, 1, 20), MeshVertex(1, 5, 30)>>,
     <<MeshVertex(1, 5, 30), MeshVertex(5, 1, 20), MeshVertex(1, 1, 10)>>,
     <<MeshVertex(0, 0, 2000), MeshVertex(4, 0, 2000), MeshVertex(0, 4, 2000)>>,
     <<MeshVertex(0, 0, -3000), MeshVertex(4, 0, 3000), MeshVertex(0, 4, 3000)>>,
     <<MeshVertex(0, 0, -2000), MeshVertex(4, 0, -2000), MeshVertex(0, 4, -2000)>>,
     <<MeshVertex(0, 0, 0), NaNVertex, MeshVertex(0, 4, 0)>>,
     <<MeshVertex(1, 1, 2000), MeshVertex(5, 1, 2000), MeshVertex(1, 5, 1999)>>,
     <<MeshVertex(0, 0, -1999), MeshVertex(4, 0, -2000), MeshVertex(0, 4, -2001)>> >>

\* A mesh of n triangles and r left-over vertices: the triangles are two
\* of MeshTriangles, a and b, in turn.
Mesh(n, a, b, r) ==
  LET tri(k) == IF k % 2 = 1 THEN MeshTriangles[a] ELSE MeshTriangles[b]
  IN [i \in 1..(3 * n + r) |->
        IF i <= 3 * n THEN tri(((i - 1) \div 3) + 1)[((i - 1) % 3) + 1]
        ELSE MeshVertex(2, 2, i)]

Identity == <<1, 0, 0, 0,  0, 1, 0, 0,  0, 0, 1, 0,  0, 0, 0, 1>>
Translation(tx, ty, tz) == <<1, 0, 0, 0,  0, 1, 0, 0,  0, 0, 1, 0,  tx, ty, tz, 1>>
Scaling(k) == <<k, 0, 0, 0,  0, k, 0, 0,  0, 0, k, 0,  0, 0, 0, k>>
\* a projection whose w row is zero: clip_position.w = 0
ZeroW == <<1, 0, 0, 0,  0, 1, 0, 0,  0, 0, 1, 0,  0, 0, 0, 0>>

\* The transform bundles: the identity; a model moved one pixel up and to
\* the left under a projection with w = 2; a view moved two pixels to the
\* right under a projection with w = 0.
Bundles ==
  { [model_matrix |-> Identity, view_matrix |-> Identity,
     projection_matrix |-> Identity, viewport_matrix |-> Identity, time |-> 0],
    [model_matrix |-> Translation(-1, -1, 0), view_matrix |-> Identity,
     projection_matrix |-> Scaling(2), viewport_matrix |-> Identity, time |-> 1],
    [model_matrix |-> Identity, view_matrix |-> Translation(2, 0, 0),
     projection_matrix |-> ZeroW, viewport_matrix |-> Translation(0, 1, 0),
     time |-> 2] }

NoVertex == MeshVertex(0, 0, 0)
NoResult == [panic |-> FALSE, fragments |-> <<>>]
NoCall == [args |-> <<NoVertex, NoVertex, NoVertex>>, result |-> NoResult]

RenderLocalsInit ==
  /\ transformed_vertices = <<>>
  /\ triangles_vec = <<>>
  /\ visible_triangles = <<>>
  /\ triangles_to_process = 0
  /\ fragments = <<>>
  /\ tri_i = 1
  /\ batch_start = 0
  /\ elapsed = 0
  /\ raster_log = <<>>
  /\ point_calls = <<>>
  /\ framebuffer = NewFramebuffer(FB_WIDTH, FB_HEIGHT)

TriangleIdle ==
  /\ args = <<NoVertex, NoVertex, NoVertex>>
  /\ tpc = "idle"
  /\ result = NoResult
  /\ first_call = NoCall

\* no camera.update call made: the camera where main puts it
NoUpdate == [n |-> 0, before |-> SpaceshipCamera(IVec(0, 1000, 3000)),
             new_position |-> IVec(0, 1000, 3000)]
CameraIdle ==
  /\ camera = SpaceshipCamera(IVec(0, 1000, 3000))
  /\ planets = Planets
  /\ update_call = NoUpdate

Init ==
  /\ \E n \in 0..MaxMeshTriangles, r \in 0..2 :
       \E a \in 1..Len(MeshTriangles), b \in 1..Len(MeshTriangles) :
          vertex_array = Mesh(n, a, b, r)
  /\ uniforms \in Bundles
  /\ planet_type \in {"Terra", "Solarius"}
  /\ pc = "transform"
  /\ RenderLocalsInit
  /\ TriangleIdle
  /\ CameraIdle

Next ==
  \/ TransformVertices
  \/ AssembleTriangles
  \/ DepthCull
  \/ RasterTriangle
  \/ RasterEnd
  \/ ShadeBatch
  \/ ShadeEnd

Spec == Init /\ [][Next]_vars

\* render runs on one thread and nothing suspends it: a step that can be
\* taken is taken.  This is weak fairness of Next, WF_vars(Next), with
\* ENABLED <<Next>>_vars written out: a call that has not ended has a step
\* (transform, assemble and cull have no condition; the raster loop has
\* RasterTriangle or RasterEnd, the batch loop ShadeBatch or ShadeEnd).
Running == pc \in {"transform", "assemble", "cull", "raster", "shade"}
Fairness == []<>(~Running) \/ []<><<Next>>_vars

SpecLive == Init /\ [][Next]_vars /\ Fairness

(***************************************************************************)
(* triangle() called on its own, on three screen-space vertices.           *)
(***************************************************************************)
\* a transformed vertex at screen position (x, y), depth z
ScreenVertex(x, y, z) ==
  [Vertex(Vec3(x, y, Fin(Whole(z)))) EXCEPT
     !.transformed_position = Vec3(x, y, Fin(Whole(z)))]

\* screen coordinates: one pixel left of the buffer, a pixel corner, a
\* pixel centre, another corner, and NaN
Coords == {Fin(-2), Fin(0), Fin(3), Fin(6), NaN}

InitTri ==
  /\ \E x1 \in Coords, y1 \in Coords, x2 \in Coords, y2 \in Coords,
        x3 \in Coords, y3 \in Coords :
       args = <<ScreenVertex(x1, y1, 10), ScreenVertex(x2, y2, 20),
                ScreenVertex(x3, y3, 30)>>
  /\ tpc = "ready"
  /\ result = NoResult
  /\ first_call = NoCall
  /\ vertex_array = <<>>
  /\ uniforms \in {u \in Bundles : u.time = 0}
  /\ planet_type = "Terra"
  /\ pc = "idle"
  /\ RenderLocalsInit
  /\ CameraIdle

\* triangle(&args[0], &args[1], &args[2], light)
CallTriangle ==
  /\ tpc \in {"ready", "exchanged"}
  /\ result' = triangle(args[1], args[2], args[3])
  /\ first_call' = IF tpc = "ready" THEN [args |-> args, result |-> result']
                   ELSE first_call
  /\ tpc' = IF result'.panic THEN "panicked"
            ELSE IF tpc = "ready" THEN "called" ELSE "recalled"
  /\ UNCHANGED args
  /\ UNCHANGED render_vars
  /\ UNCHANGED camera_vars

\* the caller exchanges two of the arguments for a second call
ExchangeArguments ==
  /\ tpc = "called"
  /\ \E i \in 1..3, j \in 1..3 :
       /\ i < j
       /\ args' = [args EXCEPT ![i] = args[j], ![j] = args[i]]
  /\ tpc' = "exchanged"
  /\ UNCHANGED <<result, first_call>>
  /\ UNCHANGED render_vars
  /\ UNCHANGED camera_vars

NextTri ==
  \/ CallTriangle
  \/ ExchangeArguments

SpecTri == InitTri /\ [][NextTri]_vars

(***************************************************************************)
(* triangle() called on a right triangle with its legs along the axes: the *)
(* corner on a pixel corner (ox, oy), then (ox + leg, oy), (ox, oy + leg). *)
(***************************************************************************)
MaxLeg == 5
MaxOffset == 1

RightTriangleArgs(ox, oy, leg) ==
  <<ScreenVertex(Fin(Whole(ox)), Fin(Whole(oy)), 10),
    ScreenVertex(Fin(Whole(ox + leg)), Fin(Whole(oy)), 20),
    ScreenVertex(Fin(Whole(ox)), Fin(Whole(oy + leg)), 30)>>

InitRight ==
  /\ \E ox \in (-MaxOffset)..MaxOffset, oy \in (-MaxOffset)..MaxOffset,
        leg \in 1..MaxLeg :
       args = RightTriangleArgs(ox, oy, leg)
  /\ tpc = "ready"
  /\ result = NoResult
  /\ first_call = NoCall
  /\ vertex_array = <<>>
  /\ uniforms \in {u \in Bundles : u.time = 0}
  /\ planet_type = "Terra"
  /\ pc = "idle"
  /\ RenderLocalsInit
  /\ CameraIdle

SpecRight == InitRight /\ [][NextTri]_vars

(***************************************************************************)
(* triangle() called on a right triangle far out on the screen's x axis,   *)
(* around 2^23, where n + 0.5 is no f32 value.  The legs are powers of     *)
(* two, so that every quotient of triangle() is exact.                     *)
(***************************************************************************)
InitFar ==
  /\ \E dx \in (-MaxLeg)..0, oy \in 0..MaxOffset, leg \in {2, 4} :
       args = RightTriangleArgs(F32_WHOLE_FROM + dx, oy, leg)
  /\ tpc = "ready"
  /\ result = NoResult
  /\ first_call = NoCall
  /\ vertex_array = <<>>
  /\ uniforms \in {u \in Bundles : u.time = 0}
  /\ planet_type = "Terra"
  /\ pc = "idle"
  /\ RenderLocalsInit
  /\ CameraIdle

SpecFar == InitFar /\ [][NextTri]_vars

(***************************************************************************)
(* vertex_shader called on its own: on a vertex that still carries the     *)
(* transformed fields of an earlier frame, then again on the same vertex   *)
(* or on the vertex it returned.  vertex_array[1] is the argument and      *)
(* transformed_vertices the results, in call order.                        *)
(***************************************************************************)
MaxShaderCalls == 3

\* a vertex with position p (in halves), normal n, and stale transformed fields
StaleVertex(p, n, stale) ==
  [position |-> p,
   normal |-> n,
   tex_coords |-> <<Fin(1), Fin(2)>>,
   color |-> "white",
   transformed_position |-> stale,
   transformed_normal |-> Vec3(Fin(Whole(1)), Fin(0), Fin(0))]

ShaderCoords == {Fin(-3), Fin(0), Fin(4), NaN}
ShaderNormals == {Vec3(Fin(0), Fin(0), Fin(Whole(1))),
                  Vec3(Fin(0), Fin(Whole(1)), Fin(0))}
StalePositions == {Vec3(Fin(0), Fin(0), Fin(0)), Vec3(Fin(7), Fin(7), Fin(7))}

InitVS ==
  /\ \E x \in ShaderCoords, y \in ShaderCoords, z \in ShaderCoords,
        n \in ShaderNormals, stale \in StalePositions :
       vertex_array = <<StaleVertex(Vec3(x, y, z), n, stale)>>
  /\ uniforms \in Bundles
  /\ planet_type = "Terra"
  /\ pc = "vertex_shader"
  /\ transformed_vertices = <<>>
  /\ triangles_vec = <<>>
  /\ visible_triangles = <<>>
  /\ triangles_to_process = 0
  /\ fragments = <<>>
  /\ tri_i = 1
  /\ batch_start = 0
  /\ elapsed = 0
  /\ raster_log = <<>>
  /\ point_calls = <<>>
  /\ framebuffer = NewFramebuffer(FB_WIDTH, FB_HEIGHT)
  /\ TriangleIdle
  /\ CameraIdle

VSUnchanged ==
  /\ UNCHANGED <<vertex_array, uniforms, planet_type, framebuffer, pc,
                 triangles_vec, visible_triangles, triangles_to_process,
                 fragments, tri_i, batch_start, elapsed, raster_log, point_calls>>
  /\ UNCHANGED triangle_vars
  /\ UNCHANGED camera_vars

\* vertex_shader(&vertex, &uniforms) on the caller's vertex
CallVertexShader ==
  /\ pc = "vertex_shader"
  /\ Len(transformed_vertices) < MaxShaderCalls
  /\ transformed_vertices' =
       Append(transformed_vertices, vertex_shader(vertex_array[1], uniforms))
  /\ VSUnchanged

\* vertex_shader(&out, &uniforms) on the vertex the last call returned
CallVertexShaderOnResult ==
  /\ pc = "vertex_shader"
  /\ transformed_vertices # <<>>
  /\ Len(transformed_vertices) < MaxShaderCalls
  /\ transformed_vertices' =
       Append(transformed_vertices,
              vertex_shader(transformed_vertices[Len(transformed_vertices)], uniforms))
  /\ VSUnchanged

NextVS ==
  \/ CallVertexShader
  \/ CallVertexShaderOnResult

SpecVS == InitVS /\ [][NextVS]_vars

(***************************************************************************)
(* fragment_shader called on its own, twice: on a fragment, then on        *)
(* another fragment the caller presents, under the same bundle and tag.    *)
(* args[1] is the fragment and result the colour returned.                 *)
(***************************************************************************)
\* the provisional colour at intensity 0 (the light behind the surface):
\* base_color * 0.0, against LitGrey at a positive intensity
Unlit == [by |-> "triangle_unlit"]

\* fragments at two pixels (with their depths), of either provisional
\* colour, at world positions drawn from the mesh coordinates
ShaderFragments ==
  {[position |-> [x |-> Centre(px), y |-> Centre(0)],
    color |-> c,
    depth |-> Q(Whole(10 * (px + 1)), 1),
    world_position |-> Vec3(Q(wx, 1), Q(0, 1), Q(wz, 1))] :
      px \in 0..1, c \in {LitGrey, Unlit}, wx \in {0, 3}, wz \in {0, 5}}

InitFS ==
  /\ \E f \in ShaderFragments : args = <<f>>
  /\ tpc = "ready"
  /\ result = NoResult
  /\ first_call = NoCall
  /\ vertex_array = <<>>
  /\ uniforms \in Bundles
  /\ planet_type \in PlanetShaderType
  /\ pc = "idle"
  /\ RenderLocalsInit
  /\ CameraIdle

\* fragment_shader(&args[0], uniforms, planet_type)
CallFragmentShader ==
  /\ tpc \in {"ready", "exchanged"}
  /\ result' = fragment_shader(args[1], uniforms, planet_type)
  /\ first_call' = IF tpc = "ready" THEN [args |-> args, result |-> result']
                   ELSE first_call
  /\ tpc' = IF tpc = "ready" THEN "called" ELSE "recalled"
  /\ UNCHANGED args
  /\ UNCHANGED render_vars
  /\ UNCHANGED camera_vars

\* the caller presents a fragment for a second call
PresentFragment ==
  /\ tpc = "called"
  /\ \E f \in ShaderFragments : args' = <<f>>
  /\ tpc' = "exchanged"
  /\ UNCHANGED <<result, first_call>>
  /\ UNCHANGED render_vars
  /\ UNCHANGED camera_vars

NextFS ==
  \/ CallFragmentShader
  \/ PresentFragment

SpecFS == InitFS /\ [][NextFS]_vars

(***************************************************************************)
(* The write of render's batch loop on its own (main.rs 466-476), on a     *)
(* fragment whose colour is the one fragment_shader returned, given by its *)
(* channels: any f32, inside [0, 1] or not.                                *)
(***************************************************************************)
\* channel values: NaN, -1.0, 0.0, 0.5, 1.0, 1.5 and 100.0
ChannelValues == {NaN, Fin(Whole(-1)), Fin(0), Fin(1), Fin(Whole(1)), Fin(3),
                  Fin(Whole(100))}

\* shaded fragments at the first pixel and just right of the buffer
ShadedFragments ==
  {[position |-> [x |-> Centre(px), y |-> Centre(0)],
    color |-> Vec3(r, g, b),
    depth |-> Q(Whole(10), 1),
    world_position |-> Vec3(Q(0, 1), Q(0, 1), Q(0, 1))] :
      px \in {0, FB_WIDTH}, r \in ChannelValues, g \in ChannelValues,
      b \in ChannelValues}

InitPack ==
  /\ \E f \in ShadedFragments : fragments = <<f>>
  /\ vertex_array = <<>>
  /\ uniforms \in {u \in Bundles : u.time = 0}
  /\ planet_type = "Terra"
  /\ pc = "write"
  /\ transformed_vertices = <<>>
  /\ triangles_vec = <<>>
  /\ visible_triangles = <<>>
  /\ triangles_to_process = 0
  /\ tri_i = 1
  /\ batch_start = 0
  /\ elapsed = 0
  /\ raster_log = <<>>
  /\ point_calls = <<>>
  /\ framebuffer = NewFramebuffer(FB_WIDTH, FB_HEIGHT)
  /\ TriangleIdle
  /\ CameraIdle

\* the cast, the bounds check, the packing and the write of one fragment
WriteShaded ==
  /\ pc = "write"
  /\ batch_start < Len(fragments)
  /\ framebuffer' = WriteBatch(framebuffer, fragments, batch_start + 1, batch_start + 1)
  /\ point_calls' = point_calls \o
                    CallsOfBatch(framebuffer, fragments, batch_start + 1, batch_start + 1)
  /\ batch_start' = batch_start + 1
  /\ UNCHANGED <<vertex_array, uniforms, planet_type, pc, transformed_vertices,
                 triangles_vec, visible_triangles, triangles_to_process, fragments,
                 tri_i, elapsed, raster_log>>
  /\ UNCHANGED triangle_vars
  /\ UNCHANGED camera_vars

NextPack == WriteShaded

SpecPack == InitPack /\ [][NextPack]_vars

(***************************************************************************)
(* SpaceshipCamera::update called on its own, frame after frame, on a      *)
(* camera near the bodies and far from them, with the keys held and the    *)
(* frame time drawn anew at every call.                                    *)
(***************************************************************************)
MaxUpdates == 1
\* the frame times, in tenths of a second
DeltaTimes == {0, 1, 2}

\* the keys held during a call: no movement key, one, two at right angles
\* or two that cancel, with no arrow key or one
MoveKeys == {{}, {"W"}, {"S"}, {"A"}, {"D"}, {"Space"}, {"LeftShift"},
             {"W", "D"}, {"W", "S"}}
TurnKeys == {{}, {"Left"}, {"Right"}, {"Up"}, {"Down"}}
Windows == {move \cup turn : move \in MoveKeys, turn \in TurnKeys}
\* the yaw and pitch at the start of a call: as built, turned left, and
\* pitched up to the limit
Orientations == {<<0, 0>>, <<300, 0>>, <<0, PitchLimit>>}

\* where main puts the camera; 5 units outside Sol's bound; 5 units
\* outside Terra's bound, above it; inside Terra's bound, where the
\* camera is once Terra has moved onto it
CameraStarts ==
  {IVec(0, 1000, 3000), IVec(450, 0, 0), IVec(1500, 350, 0), IVec(1500, 200, 0)}
\* the bodies as built, and with Terra a quarter of its orbit on
Layouts == {Planets, [Planets EXCEPT ![2] = QuarterOrbit(Planets[2])]}

InitCam ==
  /\ \E position \in CameraStarts, o \in Orientations :
       LET self == [SpaceshipCamera(position) EXCEPT !.yaw = o[1], !.pitch = o[2]]
       IN /\ camera = self
          /\ update_call = [n |-> 0, before |-> self, new_position |-> position]
  /\ planets \in Layouts
  /\ vertex_array = <<>>
  /\ uniforms = CHOOSE u \in Bundles : u.time = 0
  /\ planet_type = "Terra"
  /\ pc = "camera"
  /\ RenderLocalsInit
  /\ TriangleIdle

\* camera.update(&window, delta_time, &planets)
CallUpdate ==
  /\ pc = "camera"
  /\ update_call.n < MaxUpdates
  /\ \E window \in Windows, delta_time \in DeltaTimes :
       /\ camera' = update(camera, window, delta_time, planets)
       /\ update_call' = [n |-> update_call.n + 1, before |-> camera,
                          new_position |-> Candidate(camera, window, delta_time)]
  /\ UNCHANGED planets
  /\ UNCHANGED render_vars
  /\ UNCHANGED triangle_vars

NextCam == CallUpdate

SpecCam == InitCam /\ [][NextCam]_vars

(***************************************************************************)
(* Properties of render.                                                   *)
(***************************************************************************)
Rasterised == pc \in {"shade", "done"}

\* the fragments triangle() returns for the triangles k .. n of a list
RECURSIVE TotalFragments(_, _, _)
TotalFragments(tris, k, n) ==
  IF k > n THEN 0
  ELSE Len(triangle(tris[k][1], tris[k][2], tris[k][3]).fragments)
       + TotalFragments(tris, k + 1, n)

\* C1: the collected fragment list never holds more than max_fragments
\* fragments; once the raster loop is over it holds exactly max_fragments
\* of them when the triangles to process together produce more than that,
\* and all of them otherwise.
C1_FragmentBudget ==
  /\ Len(fragments) <= max_fragments
  /\ Rasterised =>
       LET total == TotalFragments(visible_triangles, 1, triangles_to_process)
       IN Len(fragments) = IF total > max_fragments THEN max_fragments ELSE total

C1_Witness ==
  /\ pc = "done"
  /\ TotalFragments(visible_triangles, 1, triangles_to_process) > max_fragments
  /\ Len(fragments) = max_fragments

\* the last fragment (1-based) the batches run so far have covered
Processed ==
  IF pc = "done" /\ elapsed > TIME_LIMIT_MS THEN BatchEnd(fragments, batch_start)
  ELSE Min(batch_start, Len(fragments))

\* C2: every fragment handed to framebuffer.point carries the colour
\* fragment_shader gave it, never the rasteriser's provisional one, and so
\* does every pixel written; the fragments of the batches after the one
\* whose time check found more than TIME_LIMIT_MS elapsed are neither
\* shaded nor written.
C2_OnlyShadedWritten ==
  /\ \A k \in 1..Len(point_calls) :
       /\ point_calls[k].color # LitGrey
       /\ point_calls[k].color = fragments[point_calls[k].fragment].color
       /\ point_calls[k].fragment <= Processed
  /\ \A i \in DOMAIN framebuffer.buffer :
       framebuffer.buffer[i] # PackColor(LitGrey)
  /\ \A i \in 1..Len(fragments) :
       i > Processed => fragments[i].color = LitGrey

C2_Witness ==
  /\ pc = "done"
  /\ elapsed > TIME_LIMIT_MS
  /\ Processed < Len(fragments)
  /\ point_calls # <<>>

\* C3: vertex_shader is applied to exactly the first max_vertices vertices
\* of a longer stream, in order, and to the whole of a stream that is not
\* longer; every assembled triangle is made of transformed vertices at
\* indices below max_vertices.
C3_VertexBudget ==
  pc \notin {"idle", "transform"} =>
    LET n == Min(Len(vertex_array), max_vertices)
    IN /\ Len(transformed_vertices) = n
       /\ \A i \in 1..n :
            transformed_vertices[i] = vertex_shader(vertex_array[i], uniforms)
       /\ pc # "assemble" =>
            /\ 3 * Len(triangles_vec) <= max_vertices
            /\ \A k \in 1..Len(triangles_vec), j \in 1..3 :
                 triangles_vec[k][j] =
                   vertex_shader(vertex_array[3 * (k - 1) + j], uniforms)

C3_Witness ==
  /\ pc = "done"
  /\ Len(vertex_array) = 2 * max_vertices
  /\ Len(transformed_vertices) = max_vertices

\* C4: the n transformed vertices are grouped into n \div 3 triangles,
\* triangle k being the vertices 3k, 3k+1, 3k+2 (0-based) in that order;
\* a stream of 7 vertices yields 2 triangles.
C4_Assembly ==
  pc \notin {"idle", "transform", "assemble"} =>
    /\ Len(triangles_vec) = Len(transformed_vertices) \div 3
    /\ \A k \in 1..Len(triangles_vec) :
         triangles_vec[k] = <<transformed_vertices[3 * k - 2],
                              transformed_vertices[3 * k - 1],
                              transformed_vertices[3 * k]>>
    /\ Len(vertex_array) = 7 => Len(triangles_vec) = 2

C4_Witness ==
  /\ pc = "done"
  /\ Len(vertex_array) = 7
  /\ Len(triangles_vec) = 2
  /\ triangles_vec[2][3] = transformed_vertices[6]

\* the three transformed z values of a triangle
Zs(tri) == {tri[j].transformed_position.z : j \in 1..3}
Outside(z) == ~z.nan /\ (z.v <= Whole(DEPTH_NEAR) \/ z.v >= Whole(DEPTH_FAR))
AllOutside(tri) == \A z \in Zs(tri) : Outside(z)
SameSideOutside(tri) ==
  \/ \A z \in Zs(tri) : ~z.nan /\ z.v <= Whole(DEPTH_NEAR)
  \/ \A z \in Zs(tri) : ~z.nan /\ z.v >= Whole(DEPTH_FAR)

\* C5, as claimed: no triangle whose three z values all lie outside the
\* open interval (DEPTH_NEAR, DEPTH_FAR) is passed to triangle().
C5_AllOutsideNeverRasterised ==
  \A k \in 1..Len(raster_log) : ~AllOutside(visible_triangles[raster_log[k].tri])

\* the average of the three z values lies strictly inside the window
AverageInside(tri) ==
  LET z == [j \in 1..3 |-> tri[j].transformed_position.z.v]
  IN /\ z[1] + z[2] + z[3] > 3 * Whole(DEPTH_NEAR)
     /\ z[1] + z[2] + z[3] < 3 * Whole(DEPTH_FAR)

\* C5, amended: no triangle whose three z values all lie at or below
\* DEPTH_NEAR, or all at or above DEPTH_FAR, passes the depth cull or
\* is passed to triangle(); one whose z values lie outside the window on
\* both sides passes the cull when their average is inside it.
C5_SameSideOutsideNeverRasterised ==
  /\ \A k \in 1..Len(visible_triangles) : ~SameSideOutside(visible_triangles[k])
  /\ \A k \in 1..Len(raster_log) :
       ~SameSideOutside(visible_triangles[raster_log[k].tri])
  /\ pc \notin {"idle", "transform", "assemble", "cull"} =>
       \A k \in 1..Len(triangles_vec) :
         (AllOutside(triangles_vec[k]) /\ AverageInside(triangles_vec[k])) =>
            \E j \in 1..Len(visible_triangles) :
               visible_triangles[j] = triangles_vec[k]

C5_Witness ==
  /\ pc = "done"
  /\ \E k \in 1..Len(triangles_vec) : SameSideOutside(triangles_vec[k])
  /\ \E k \in 1..Len(raster_log) :
       AllOutside(visible_triangles[raster_log[k].tri])

C9_OnlyInsideWritten ==
  \A k \in 1..Len(point_calls) :
    LET f == fragments[point_calls[k].fragment]
    IN /\ 0 <= f.position.x /\ f.position.x < Whole(framebuffer.width)
       /\ 0 <= f.position.y /\ f.position.y < Whole(framebuffer.height)

\* The steps render can still take, at most: the phases left, plus one
\* per triangle left of the raster loop, plus one per fragment left of the
\* batch loop.
Variant ==
  LET shade_left == IF batch_start < Len(fragments)
                    THEN Len(fragments) - batch_start ELSE 0
      raster_left == triangles_to_process + 1 - tri_i
  IN CASE pc = "transform" -> 5 + max_fragments + max_triangles
       [] pc = "assemble" -> 4 + max_fragments + max_triangles
       [] pc = "cull" -> 3 + max_fragments + max_triangles
       [] pc = "raster" -> 2 + max_fragments + raster_left
       [] pc = "shade" -> 1 + shade_left
       [] OTHER -> 0

\* render returned having done all the work it selected, or having stopped
\* on a budget
Completed ==
  /\ Len(transformed_vertices) = Min(Len(vertex_array), max_vertices)
  /\ Len(triangles_vec) = Len(transformed_vertices) \div 3
  /\ triangles_to_process = Min(Len(visible_triangles), max_triangles)
  /\ Len(raster_log) = triangles_to_process \/ Len(fragments) >= max_fragments
  /\ batch_start >= Len(fragments) \/ elapsed > TIME_LIMIT_MS

\* C11: every call of render comes to an end (it returns, or aborts on the
\* panic of C10): each step of its loops strictly lowers a measure that is
\* never negative, and a call that returns has processed all the work it
\* selected or stopped on a budget.
C11_RenderTerminates ==
  /\ <>(pc \in {"done", "panicked"})
  /\ [][Variant' < Variant]_vars
  /\ [](Variant >= 0)
  /\ [](pc = "done" => Completed)

\* a call that stopped on the vertex, fragment and time budgets
C11_Witness ==
  /\ pc = "done"
  /\ Len(vertex_array) > max_vertices
  /\ Len(fragments) = max_fragments
  /\ elapsed > TIME_LIMIT_MS
  /\ batch_start + BATCH_SIZE < Len(fragments)

\* the depth cull has run
Culling == pc \in {"raster", "shade", "done", "panicked"}
\* the average of the three transformed z values, as a fraction
AverageZ(tri) ==
  LET z == [j \in 1..3 |-> tri[j].transformed_position.z]
  IN IF z[1].nan \/ z[2].nan \/ z[3].nan THEN QNaN
     ELSE Q(z[1].v + z[2].v + z[3].v, 3)
\* avg > bound and avg < bound, on fractions of fixed-point values
StrictlyInside(tri) ==
  LET avg == AverageZ(tri)
  IN /\ ~avg.nan
     /\ avg.n > Whole(DEPTH_NEAR) * avg.d
     /\ avg.n < Whole(DEPTH_FAR) * avg.d
OnBound(tri) ==
  LET avg == AverageZ(tri)
  IN /\ ~avg.nan
     /\ avg.n = Whole(DEPTH_NEAR) * avg.d \/ avg.n = Whole(DEPTH_FAR) * avg.d

\* C16: the triangles that pass the depth cull are exactly the assembled
\* triangles whose average z is strictly between DEPTH_NEAR and
\* DEPTH_FAR, in mesh order; one whose average is exactly DEPTH_NEAR or
\* DEPTH_FAR does not pass.
C16_DepthCull ==
  Culling =>
    /\ visible_triangles = SelectSeq(triangles_vec, StrictlyInside)
    /\ \A k \in 1..Len(triangles_vec) :
         OnBound(triangles_vec[k]) =>
           \A j \in 1..Len(visible_triangles) :
              visible_triangles[j] # triangles_vec[k]

\* triangles on the far bound among triangles just inside it, which pass
\* in their order
C16_Witness ==
  /\ pc = "done"
  /\ Len(triangles_vec) = 2
  /\ \E k \in 1..Len(triangles_vec) :
       /\ OnBound(triangles_vec[k])
       /\ \E j \in 1..3 : triangles_vec[k][j].transformed_position.z.v # Whole(DEPTH_NEAR)
       /\ AverageZ(triangles_vec[k]).n < 0
  /\ Len(visible_triangles) = 1
  /\ AverageZ(visible_triangles[1]).n = 3 * Whole(DEPTH_FAR) - Whole(1)

\* the fragment lists triangle() returns for the triangles k .. n of a
\* list, one after the other
RECURSIVE Concatenation(_, _, _)
Concatenation(tris, k, n) ==
  IF k > n THEN <<>>
  ELSE triangle(tris[k][1], tris[k][2], tris[k][3]).fragments
       \o Concatenation(tris, k + 1, n)
\* a fragment as the rasteriser returned it, before shading
Unshaded(f) == [f EXCEPT !.color = LitGrey]
\* the fragments the first k calls of triangle() returned, counted
RECURSIVE ReturnedBefore(_)
ReturnedBefore(k) ==
  IF k <= 1 THEN 0 ELSE raster_log[k - 1].count + ReturnedBefore(k - 1)

\* C17: triangle() is called on the visible triangles in mesh order, and
\* never once the fragments collected have reached max_fragments; the
\* collected list is the first min(max_fragments, total) fragments of the
\* concatenation of the lists triangle() returns for the triangles to
\* process, in that order.
C17_PrefixOfConcatenation ==
  /\ \A k \in 1..Len(raster_log) :
       /\ raster_log[k].tri = k
       /\ ReturnedBefore(k) < max_fragments
  /\ Rasterised =>
       LET all == Concatenation(visible_triangles, 1, triangles_to_process)
           n == Min(max_fragments, Len(all))
       IN /\ Len(fragments) = n
          /\ \A i \in 1..n : Unshaded(fragments[i]) = all[i]
          /\ Len(raster_log) < triangles_to_process =>
               ReturnedBefore(Len(raster_log) + 1) >= max_fragments

\* a call whose second triangle was cut short by the fragment budget
C17_Witness ==
  /\ pc = "done"
  /\ Len(raster_log) = 2
  /\ raster_log[1].count > 0
  /\ raster_log[1].count + raster_log[2].count > max_fragments
  /\ Len(fragments) = max_fragments
  /\ fragments[max_fragments].position =
       triangle(visible_triangles[2][1], visible_triangles[2][2],
                visible_triangles[2][3]).fragments[max_fragments
                                                    - raster_log[1].count].position

\* the batches run so far stopped on the time limit
StoppedOnTime == pc = "done" /\ elapsed > TIME_LIMIT_MS

\* C15, as claimed: when render stops on the time limit, the number of
\* fragments processed is a positive multiple of BATCH_SIZE.
C15_StoppedOnMultiple ==
  StoppedOnTime => (Processed > 0 /\ Processed % BATCH_SIZE = 0)

\* C15, amended: the clock is read only after a batch.  The fragments
\* processed are whole batches (each one shaded, and written where it is
\* in bounds), the rest untouched; a call with fragments never ends
\* before its first batch, whatever the clock reads; a call that ends
\* with fragments left has stopped on the time limit after a positive
\* multiple of BATCH_SIZE fragments, and one that found the limit
\* exceeded after its last batch has processed them all.
C15_TimeBoxBetweenBatches ==
  /\ \A i \in 1..Len(fragments) :
       /\ (i <= Processed) <=> (fragments[i].color # LitGrey)
       /\ (i <= Processed /\ InBounds(framebuffer, AsUsize(fragments[i].position.x),
                                       AsUsize(fragments[i].position.y))) =>
            \E k \in 1..Len(point_calls) : point_calls[k].fragment = i
  /\ Processed = Len(fragments) \/ Processed % BATCH_SIZE = 0
  /\ (pc = "done" /\ fragments # <<>>) =>
       Processed >= Min(BATCH_SIZE, Len(fragments))
  /\ (pc = "done" /\ Processed < Len(fragments)) =>
       /\ StoppedOnTime
       /\ Processed > 0
       /\ Processed % BATCH_SIZE = 0

\* a call stopped by the clock after one full batch, with fragments left
C15_Witness ==
  /\ StoppedOnTime
  /\ Processed = BATCH_SIZE
  /\ Len(fragments) > BATCH_SIZE
  /\ Len(point_calls) = BATCH_SIZE
  /\ fragments[BATCH_SIZE].color # LitGrey
  /\ fragments[BATCH_SIZE + 1].color = LitGrey

(***************************************************************************)
(* Properties of triangle().                                               *)
(***************************************************************************)
Returned == tpc \in {"called", "recalled"}
Finite(a) == \A j \in 1..3 : /\ ~a[j].transformed_position.x.nan
                             /\ ~a[j].transformed_position.y.nan
\* twice the signed area of the three screen positions
Area2(a) ==
  LET p1 == a[1].transformed_position
      p2 == a[2].transformed_position
      p3 == a[3].transformed_position
  IN (p2.x.v - p1.x.v) * (p3.y.v - p1.y.v) - (p2.y.v - p1.y.v) * (p3.x.v - p1.x.v)
NonDegenerate(a) == Finite(a) /\ Area2(a) # 0
Culled(a) == BackfaceCulled(SortByY(a[1], a[2], a[3]))

\* C7, as claimed: for a non-degenerate triple, exchanging two of the
\* arguments toggles the backface test between culled and accepted.
C7_ExchangeTogglesCulling ==
  (tpc = "recalled" /\ NonDegenerate(args)) =>
     Culled(args) # Culled(first_call.args)

InUnit(w) ==
  /\ ~w.nan
  /\ 0 <= w.n1 /\ w.n1 <= w.d
  /\ 0 <= w.n2 /\ w.n2 <= w.d
  /\ 0 <= w.n3 /\ w.n3 <= w.d
  /\ w.n1 + w.n2 + w.n3 = w.d
\* the pixel centres around the vertices drawn
Samples == {Centre(n) : n \in -2..4}
WeightsInUnit(a) ==
  /\ \A p_x \in Samples, p_y \in Samples :
       LET w == barycentric_coordinates(p_x, p_y, a[1], a[2], a[3])
       IN w.some => InUnit(w)
  /\ \A k \in 1..Len(result.fragments) :
       LET f == result.fragments[k]
           w == barycentric_coordinates(f.position.x, f.position.y, a[1], a[2], a[3])
       IN w.some /\ InUnit(w)

\* C8, as claimed: whenever barycentric_coordinates returns Some, and for
\* every fragment triangle() emits, the weights sum to 1 and each lies in
\* [0, 1].
C8_WeightsInUnit == Returned => WeightsInUnit(args)

\* C8 on finite coordinates only, where it holds.
C8_FiniteWeightsInUnit == (Returned /\ Finite(args)) => WeightsInUnit(args)

\* C10, as claimed: triangle() returns a fragment list for every triple
\* of transformed vertices, NaN coordinates included, and never panics.
C10_NeverPanics == tpc # "panicked" /\ pc # "panicked"

\* the set of positions of a fragment list
Positions(frags) == {frags[k].position : k \in 1..Len(frags)}
\* the leg of a right triangle drawn by RightTriangleArgs, in pixels
Leg(a) == (a[2].transformed_position.x.v - a[1].transformed_position.x.v) \div 2
\* the pixel centres of the closed triangle a: the discretised triangle
Discretised(a) ==
  LET ox == a[1].transformed_position.x.v \div 2
      oy == a[1].transformed_position.y.v \div 2
  IN {[x |-> Centre(ox + i), y |-> Centre(oy + j)] :
        <<i, j>> \in {ij \in (0..Leg(a)) \X (0..Leg(a)) : ij[1] + ij[2] + 1 <= Leg(a)}}
\* a set of pixel centres with no gap inside a row and no empty row between two rows
Contiguous(P) ==
  /\ \A p \in P, q \in P :
       p.y = q.y => \A x \in p.x..q.x : x % 2 = 1 => [x |-> x, y |-> p.y] \in P
  /\ \A p \in P, q \in P :
       \A y \in p.y..q.y : y % 2 = 1 => \E r \in P : r.y = y
Reversed(a) == <<a[3], a[2], a[1]>>

\* C12: for the right triangle (0,0), (4,0), (0,4) given in that order (and
\* for every right triangle drawn the same way) triangle() returns a
\* non-empty contiguous set of pixel centres, exactly those of the closed
\* triangle, so that their number (10 for legs of 4) is within 3 pixels,
\* one per edge, of the triangle's area (8); for the same points in
\* reversed order it returns no fragment.
C12_RightTriangle ==
  /\ tpc = "called" =>
       LET P == Positions(result.fragments)
       IN /\ result.fragments # <<>>
          /\ Cardinality(P) = Len(result.fragments)
          /\ P = Discretised(args)
          /\ Contiguous(P)
          /\ 2 * Len(result.fragments) - Leg(args) * Leg(args) \in (-6)..6
          /\ Leg(args) = 4 => Len(result.fragments) = 10
  /\ (tpc = "recalled" /\ args = Reversed(first_call.args)) =>
       result.fragments = <<>>

C12_Witness ==
  /\ tpc = "recalled"
  /\ first_call.args = RightTriangleArgs(0, 0, 4)
  /\ args = Reversed(first_call.args)
  /\ Len(first_call.result.fragments) = 10
  /\ result.fragments = <<>>

\* fragment f comes before fragment g in scanline-major order
Before(f, g) ==
  \/ f.position.y < g.position.y
  \/ f.position.y = g.position.y /\ f.position.x < g.position.x
\* the position is a pixel centre: a whole number + 0.5 in x and in y
OnCentre(f) == f.position.x % 2 = 1 /\ f.position.y % 2 = 1
ScanlineMajor(frags) ==
  /\ \A k \in 1..(Len(frags) - 1) : Before(frags[k], frags[k + 1])
  /\ \A k \in 1..Len(frags), j \in 1..Len(frags) :
       k # j => frags[k].position # frags[j].position
  /\ \A k \in 1..Len(frags) : OnCentre(frags[k])

\* C18, as claimed: the fragments triangle() returns are in scanline-major
\* order (y never decreasing, x strictly increasing within a scanline), no
\* position occurs twice, and every position is a pixel centre.
C18_ScanlineMajor == Returned => ScanlineMajor(result.fragments)

\* the scanlines triangle() walks for the arguments a (none when it
\* panics or culls)
ScanlinesOf(a) ==
  IF SortPanics(a[1], a[2], a[3]) \/ Culled(a) THEN {}
  ELSE LET verts == SortByY(a[1], a[2], a[3])
       IN FloorI(verts[1].transformed_position.y.v)
            ..CeilI(verts[3].transformed_position.y.v)
\* the x-intersections the edge loop collects on scanline y
IntersectionsOn(a, y) == EdgeIntersections(SortByY(a[1], a[2], a[3]), Centre(y), 1)

\* C19: on every scanline of every triangle the edge loop collects at most
\* two x-intersections, never three, and a scanline with fewer than two
\* has no fragment in the result.
C19_AtMostTwoIntersections ==
  Returned =>
    \A y \in ScanlinesOf(args) :
      /\ Len(IntersectionsOn(args, y)) <= 2
      /\ Len(IntersectionsOn(args, y)) < 2 =>
           \A k \in 1..Len(result.fragments) :
              result.fragments[k].position.y # Centre(y)

\* a triangle with a vertex on a scanline's sample (two intersections
\* there) and with a scanline below its last vertex (none there)
C19_Witness ==
  /\ Returned
  /\ result.fragments # <<>>
  /\ \E y \in ScanlinesOf(args) :
       /\ Len(IntersectionsOn(args, y)) = 2
       /\ \E j \in 1..3 : args[j].transformed_position.y = Fin(Centre(y))
       /\ \E k \in 1..Len(result.fragments) :
            result.fragments[k].position.y = Centre(y)
  /\ \E y \in ScanlinesOf(args) : Len(IntersectionsOn(args, y)) = 0

(***************************************************************************)
(* Properties of the colour render hands to the framebuffer.               *)
(***************************************************************************)
\* the three bytes of a packed colour
Red(packed) == (packed \div 65536) % 256
Green(packed) == (packed \div 256) % 256
Blue(packed) == packed % 256
\* the byte of a channel clamped to [0, 1]: 0 for NaN
ByteOf(c) ==
  IF c.nan \/ c.v <= 0 THEN 0
  ELSE IF c.v >= Whole(1) THEN 255
  ELSE (255 * c.v) \div 2
\* framebuffer.point was called in the write
Handed == pc = "write" /\ point_calls # <<>>

\* C20: the colour handed to the framebuffer is a 24-bit value whose red,
\* green and blue bytes are those of the channels x, y and z clamped to
\* [0, 1], each one whatever the other two channels are; the pixel written
\* holds that value.
C20_PackedChannels ==
  Handed =>
    LET call == point_calls[Len(point_calls)]
        packed == framebuffer.current_color.packed
    IN /\ packed \in 0..16777215
       /\ Red(packed) = ByteOf(call.color.x)
       /\ Green(packed) = ByteOf(call.color.y)
       /\ Blue(packed) = ByteOf(call.color.z)
       /\ framebuffer.buffer[call.y * framebuffer.width + call.x].packed = packed

\* a colour with a channel above 1, one below 0 and one that is NaN
C20_Witness ==
  /\ Handed
  /\ fragments[1].color = Vec3(Fin(Whole(100)), Fin(Whole(-1)), NaN)
  /\ framebuffer.current_color.packed = 255 * 65536

(***************************************************************************)
(* Properties of SpaceshipCamera::update.                                  *)
(***************************************************************************)
\* position is closer to some planet than that planet's scale + 15
\* (squared lengths, in tenths of a unit)
TooClose(position) ==
  \E i \in DOMAIN planets :
    LET d == ISub(position, planets[i].position)
        bound == planets[i].scale + 150
    IN d.x * d.x + d.y * d.y + d.z * d.z < bound * bound
Updated == pc = "camera" /\ update_call.n > 0

\* C21: after a call of update, the position is the one before the call
\* whenever the candidate position is closer to some planet than that
\* planet's scale + 15, and a position that differs from the one before
\* the call is at least scale + 15 away from every planet.
C21_NoMoveIntoPlanet ==
  Updated =>
    /\ TooClose(update_call.new_position) =>
         camera.position = update_call.before.position
    /\ camera.position # update_call.before.position => ~TooClose(camera.position)

\* a call whose candidate position was another one, too close to a planet:
\* the position stayed while the yaw changed
C21_Witness ==
  /\ Updated
  /\ update_call.new_position # update_call.before.position
  /\ TooClose(update_call.new_position)
  /\ camera.position = update_call.before.position
  /\ camera.yaw # update_call.before.yaw

(***************************************************************************)
(* Properties of vertex_shader.                                            *)
(***************************************************************************)
\* C13: the vertex vertex_shader returns has the position, normal,
\* tex_coords and color of its argument and the argument's normal as its
\* transformed_normal; only transformed_position is computed (from the
\* position and the bundle alone: the stale transformed fields are not
\* read, so every call on the vertex or on a returned vertex gives the
\* same result); the argument and the bundle are left as they were.
C13_VertexShaderFrame ==
  /\ [](pc = "vertex_shader" =>
         \A k \in 1..Len(transformed_vertices) :
           LET in == vertex_array[1]
               out == transformed_vertices[k]
           IN /\ out.position = in.position
              /\ out.normal = in.normal
              /\ out.tex_coords = in.tex_coords
              /\ out.color = in.color
              /\ out.transformed_normal = in.normal
              /\ out = transformed_vertices[1]
              /\ out.transformed_position =
                   vertex_shader(Vertex(in.position), uniforms).transformed_position)
  /\ [][pc = "vertex_shader" =>
          /\ vertex_array' = vertex_array
          /\ uniforms' = uniforms]_vars

\* three calls, on a vertex whose stale fields differ from the new ones
C13_Witness ==
  /\ pc = "vertex_shader"
  /\ Len(transformed_vertices) = MaxShaderCalls
  /\ transformed_vertices[1].transformed_position # vertex_array[1].transformed_position
  /\ transformed_vertices[1].transformed_position # vertex_array[1].position
  /\ vertex_array[1].transformed_normal # vertex_array[1].normal
  /\ ~vertex_array[1].position.x.nan

(***************************************************************************)
(* Properties of fragment_shader.                                          *)
(***************************************************************************)
\* the second call was made on the world position of the first (the time
\* and the tag are those of the first call: the bundle and tag are fixed)
SameWorldPosition ==
  /\ tpc = "recalled"
  /\ args[1].world_position = first_call.args[1].world_position

====
